---- MODULE Spec2Model ----
(***************************************************************************)
(* Model of the day-planning engine of daily-balance-bot (class            *)
(* ScheduleEngine).  Time is counted in minutes since 00:00 UTC of day 0.  *)
(* The engine mixes local-time arithmetic (Date.setHours, getHours,        *)
(* getDay) with UTC arithmetic (toISOString); tz is the offset of local    *)
(* time from UTC in minutes, so that local = utc + tz.                     *)
(***************************************************************************)
EXTENDS Integers, Sequences, FiniteSets, TLC

VARIABLES
    tz,                          \* offset of local time from UTC (minutes)
    now,                         \* the wall clock, read by new Date()
    tasks,                       \* ScheduleEngine.tasks
    unavailableBlocks,           \* ScheduleEngine.unavailableBlocks (the rules)
    schedule,                    \* ScheduleEngine.schedule
    adHocUnavailableByDate,      \* date key -> sequence of ad-hoc blocks
    suppressedRecurringInstances,\* date key -> set of suppressed ids
    result,                      \* the value returned by the last call
    op,                          \* the last call and its arguments
    lastGen,                     \* inputs and result of the last generateSchedule
    deleted,                     \* history: (rule, local day) of deleted recurring instances
    nEdits,                      \* number of interactive edits
    supplied                     \* history: the collection last handed to setTasks

vars == <<tz, now, tasks, unavailableBlocks, schedule, adHocUnavailableByDate,
          suppressedRecurringInstances, result, op, lastGen, deleted,
          nEdits, supplied>>

----------------------------------------------------------------------------
(* Bounds of the model *)

MaxTasks == 2          \* longest task collection handed to setTasks
MaxRules == 1          \* longest rule collection handed to setUnavailableBlocks
MaxAdHoc == 1          \* ad-hoc blocks stored per date key
MaxEdits == 1          \* rescheduleTask/addUnavailableTime/deleteTimeBlock calls
MaxBlockEdits == 3     \* the same, in the runs about ad-hoc blocks
MaxRanked == 2         \* longest task collection that is ranked on its own
MaxPlaced == 2         \* blocks already placed when a slot is looked for on its own
MaxMixed == 3          \* longest task collection with completed tasks in it
MaxHeld == 2           \* task blocks held when the breaks are regenerated on their own

----------------------------------------------------------------------------
(* Program constants *)

workingHoursStart == 9
workingHoursEnd == 17
shortBreakDuration == 15
longBreakDuration == 30
maxContinuousWork == 90
longBreakThreshold == 180
minWorkForBreak == 60
roundingMinutes == 5
slotWidth == 30
MinutesPerDay == 1440
MinutesPerHour == 60

----------------------------------------------------------------------------
(* Dates *)

Max(a, b) == IF a >= b THEN a ELSE b
Min(a, b) == IF a <= b THEN a ELSE b

\* the local calendar day of an instant
LocalDay(t) == (t + tz) \div MinutesPerDay

\* Date.getHours()*60 + Date.getMinutes(): local minute of the day
getHoursMinutes(t) == (t + tz) % MinutesPerDay

\* new Date(t).setHours(h, m, 0, 0): same local day, given local time of day
setHours(t, minuteOfDay) == LocalDay(t) * MinutesPerDay + minuteOfDay - tz

\* Date.getDay(): weekday of the local day, 0 = Sunday; day 0 is a Sunday
getDay(t) == LocalDay(t) % 7

\* toISOString().split('T')[0]: the UTC calendar day
getDateKey(t) == t \div MinutesPerDay

\* an instant given by local day and local minute of day
At(day, minuteOfDay) == day * MinutesPerDay + minuteOfDay - tz

createWorkDay(date) ==
    [start |-> setHours(date, workingHoursStart * MinutesPerHour),
     end   |-> setHours(date, workingHoursEnd * MinutesPerHour)]

timeSlotsOverlap(start1, end1, start2, end2) == start1 < end2 /\ start2 < end1

roundUpToMinutes(t, minutes) == ((t + minutes - 1) \div minutes) * minutes

----------------------------------------------------------------------------
(* Blocks.  A block identity is the string kind-segs-time; it is kept as   *)
(* its '-'-separated parts: the prefix, the segments of the embedded task  *)
(* or rule identity, and the timestamp suffix.                             *)

NoTaskId == "none"
NoTask == [id |-> NoTaskId, duration |-> 0, deadline |-> 0, priority |-> "low",
           type |-> "leisure", completed |-> FALSE]

BlockId(kind, segs, time) == [kind |-> kind, segs |-> segs, time |-> time]

TaskBlock(task, start, end) ==
    [id |-> BlockId("task", <<task.id>>, start), type |-> "task",
     startTime |-> start, endTime |-> end, taskId |-> task.id, task |-> task]

BreakBlock(start, end) ==
    [id |-> BlockId("break", <<>>, start), type |-> "break",
     startTime |-> start, endTime |-> end, taskId |-> NoTaskId, task |-> NoTask]

AdHocBlock(start, end) ==
    [id |-> BlockId("ad-hoc", <<>>, start), type |-> "unavailable",
     startTime |-> start, endTime |-> end, taskId |-> NoTaskId, task |-> NoTask]

RecurringBlock(rule, targetDate, start, end) ==
    [id |-> BlockId("unavailable", rule.id, targetDate), type |-> "unavailable",
     startTime |-> start, endTime |-> end, taskId |-> NoTaskId, task |-> NoTask]

\* stable sort by ascending start time (Array.prototype.sort with a - b)
RECURSIVE InsertByStart(_, _)
InsertByStart(b, s) ==
    IF s = <<>> THEN <<b>>
    ELSE IF Head(s).startTime <= b.startTime
         THEN <<Head(s)>> \o InsertByStart(b, Tail(s))
         ELSE <<b>> \o s

RECURSIVE SortByStart(_)
SortByStart(s) ==
    IF s = <<>> THEN <<>>
    ELSE InsertByStart(s[Len(s)], SortByStart(SubSeq(s, 1, Len(s) - 1)))

Range(s) == {s[i] : i \in 1..Len(s)}

----------------------------------------------------------------------------
(* ScheduleEngine: expansion of the unavailability rules *)

shouldIncludeBlock(block, date) ==
    IF block.recurring = "none" THEN TRUE
    ELSE IF block.recurring = "daily" THEN TRUE
    ELSE IF block.recurring = "weekly" THEN getDay(date) \in block.days
    ELSE FALSE

\* variant: the block of a rule is not trimmed to the working hours
RECURSIVE addRecurringBlocks_untrimmed(_, _, _, _, _)
addRecurringBlocks_untrimmed(sched, rules, i, workDay, suppressedIds) ==
    IF i > Len(rules) THEN sched
    ELSE LET block == rules[i]
             targetDate == workDay.start
             startTime == setHours(targetDate, getHoursMinutes(block.startTime))
             endTime == setHours(targetDate, getHoursMinutes(block.endTime))
             included == /\ block.id \notin suppressedIds
                         /\ shouldIncludeBlock(block, targetDate)
                         /\ timeSlotsOverlap(startTime, endTime,
                                             workDay.start, workDay.end)
         IN addRecurringBlocks_untrimmed(
                IF included
                THEN Append(sched, RecurringBlock(block, targetDate,
                                                  startTime, endTime))
                ELSE sched,
                rules, i + 1, workDay, suppressedIds)

\* the recurring rules, in collection order, materialised on the target date
RECURSIVE addRecurringBlocks(_, _, _, _, _)
addRecurringBlocks(sched, rules, i, workDay, suppressedIds) ==
    IF i > Len(rules) THEN sched
    ELSE LET block == rules[i]
             targetDate == workDay.start
             startTime == setHours(targetDate, getHoursMinutes(block.startTime))
             endTime == setHours(targetDate, getHoursMinutes(block.endTime))
             clampedStart == Max(startTime, workDay.start)
             clampedEnd == Min(endTime, workDay.end)
             included == /\ block.id \notin suppressedIds
                         /\ shouldIncludeBlock(block, targetDate)
                         /\ timeSlotsOverlap(startTime, endTime,
                                             workDay.start, workDay.end)
         IN addRecurringBlocks(
                IF included
                THEN Append(sched, RecurringBlock(block, targetDate,
                                                  clampedStart, clampedEnd))
                ELSE sched,
                rules, i + 1, workDay, suppressedIds)

\* the ad-hoc blocks stored for the date key, clamped to the working hours
RECURSIVE addAdHocBlocks(_, _, _, _)
addAdHocBlocks(sched, adHocBlocks, i, workDay) ==
    IF i > Len(adHocBlocks) THEN sched
    ELSE LET block == adHocBlocks[i]
             clamped == [block EXCEPT
                           !.startTime = Max(block.startTime, workDay.start),
                           !.endTime = Min(block.endTime, workDay.end)]
         IN addAdHocBlocks(
                IF timeSlotsOverlap(block.startTime, block.endTime,
                                    workDay.start, workDay.end)
                THEN Append(sched, clamped) ELSE sched,
                adHocBlocks, i + 1, workDay)

addUnavailableBlocks(sched, rules, adHoc, suppressed, workDay, dateKey) ==
    addAdHocBlocks(
        addRecurringBlocks(sched, rules, 1, workDay, suppressed[dateKey]),
        adHoc[dateKey], 1, workDay)

----------------------------------------------------------------------------
(* ScheduleEngine: ranking *)

\* variant: the deadline score grows with the time left
getUrgencyScore_lateFirst(task, clock) ==
    LET minutesToDeadline == task.deadline - clock
        deadlineScore == IF minutesToDeadline <= 24 * MinutesPerHour THEN 20
                         ELSE IF minutesToDeadline <= 48 * MinutesPerHour THEN 60
                         ELSE IF minutesToDeadline <= 168 * MinutesPerHour THEN 80
                         ELSE 100
        priorityScore == IF task.priority = "high" THEN 50
                         ELSE IF task.priority = "medium" THEN 30
                         ELSE 10
        typeScore == IF task.type = "work" THEN 20
                     ELSE IF task.type = "study" THEN 15
                     ELSE 5
    IN deadlineScore + priorityScore + typeScore

getUrgencyScore(task, clock) ==
    LET minutesToDeadline == task.deadline - clock
        deadlineScore == IF minutesToDeadline <= 24 * MinutesPerHour THEN 100
                         ELSE IF minutesToDeadline <= 48 * MinutesPerHour THEN 80
                         ELSE IF minutesToDeadline <= 168 * MinutesPerHour THEN 60
                         ELSE 20
        priorityScore == IF task.priority = "high" THEN 50
                         ELSE IF task.priority = "medium" THEN 30
                         ELSE 10
        typeScore == IF task.type = "work" THEN 20
                     ELSE IF task.type = "study" THEN 15
                     ELSE 5
    IN deadlineScore + priorityScore + typeScore

\* TimetableScheduler.prioritizeTasks: the balanced score of the timetable
\* variant of the scheduler
getBalancedScore(task, clock) ==
    LET minutesToDeadline == task.deadline - clock
        deadlineScore == IF minutesToDeadline <= 24 * MinutesPerHour THEN 80
                         ELSE IF minutesToDeadline <= 48 * MinutesPerHour THEN 60
                         ELSE IF minutesToDeadline <= 168 * MinutesPerHour THEN 40
                         ELSE 15
        priorityScore == IF task.priority = "high" THEN 40
                         ELSE IF task.priority = "medium" THEN 25
                         ELSE 10
        typeScore == IF task.type = "work" THEN 15
                     ELSE IF task.type = "study" THEN 12
                     ELSE 8
        wellbeing == (IF task.duration > 120 THEN 10 ELSE 0)
                     + (IF task.duration > 180 THEN 15 ELSE 0)
    IN deadlineScore + priorityScore + typeScore - wellbeing

\* stable sort by descending urgency score
\* variant: a task is put before the tasks of equal score
RECURSIVE InsertByScore_unstable(_, _, _)
InsertByScore_unstable(t, s, clock) ==
    IF s = <<>> THEN <<t>>
    ELSE IF getUrgencyScore(Head(s), clock) > getUrgencyScore(t, clock)
         THEN <<Head(s)>> \o InsertByScore_unstable(t, Tail(s), clock)
         ELSE <<t>> \o s

RECURSIVE InsertByScore(_, _, _)
InsertByScore(t, s, clock) ==
    IF s = <<>> THEN <<t>>
    ELSE IF getUrgencyScore(Head(s), clock) >= getUrgencyScore(t, clock)
         THEN <<Head(s)>> \o InsertByScore(t, Tail(s), clock)
         ELSE <<t>> \o s

RECURSIVE prioritizeTasks(_, _)
prioritizeTasks(ts, clock) ==
    IF ts = <<>> THEN <<>>
    ELSE InsertByScore(ts[Len(ts)],
                       prioritizeTasks(SubSeq(ts, 1, Len(ts) - 1), clock), clock)

----------------------------------------------------------------------------
(* ScheduleEngine: slot allocation *)

NoSlot == [found |-> FALSE, start |-> 0, end |-> 0]
Slot(start, end) == [found |-> TRUE, start |-> start, end |-> end]

RECURSIVE scanBlocks(_, _, _, _, _)
scanBlocks(sortedBlocks, i, nextStart, duration, endOfDay) ==
    IF i > Len(sortedBlocks)
    THEN IF nextStart + duration <= endOfDay
         THEN Slot(nextStart, nextStart + duration) ELSE NoSlot
    ELSE IF nextStart + duration <= sortedBlocks[i].startTime
         THEN Slot(nextStart, nextStart + duration)
         ELSE scanBlocks(sortedBlocks, i + 1, sortedBlocks[i].endTime,
                         duration, endOfDay)

findAvailableSlot(sched, startTime, duration, endOfDay) ==
    LET endTime == startTime + duration
        hasConflict == \E i \in 1..Len(sched) :
            timeSlotsOverlap(startTime, endTime,
                             sched[i].startTime, sched[i].endTime)
        sortedBlocks == SortByStart(
            SelectSeq(sched, LAMBDA b : b.endTime > startTime))
    IN IF endTime > endOfDay THEN NoSlot
       ELSE IF ~hasConflict THEN Slot(startTime, endTime)
       ELSE scanBlocks(sortedBlocks, 1, startTime, duration, endOfDay)

\* variant: the exclusion skips every task block, not only the task's own
isSlotAvailable_skipsTasks(sched, startTime, endTime, excludeTaskId) ==
    ~\E i \in 1..Len(sched) :
        /\ sched[i].taskId = NoTaskId
        /\ timeSlotsOverlap(startTime, endTime,
                            sched[i].startTime, sched[i].endTime)

\* variant: the task's own block counts as a conflict
isSlotAvailable_noExclusion(sched, startTime, endTime, excludeTaskId) ==
    ~\E i \in 1..Len(sched) :
        timeSlotsOverlap(startTime, endTime,
                         sched[i].startTime, sched[i].endTime)

isSlotAvailable(sched, startTime, endTime, excludeTaskId) ==
    ~\E i \in 1..Len(sched) :
        /\ sched[i].taskId # excludeTaskId
        /\ timeSlotsOverlap(startTime, endTime,
                            sched[i].startTime, sched[i].endTime)

----------------------------------------------------------------------------
(* ScheduleEngine: placement of the ranked tasks, with breaks *)

RECURSIVE placeTasks(_, _, _, _, _, _)
placeTasks(sched, ts, i, currentTime, continuousWorkTime, workDay) ==
    IF i > Len(ts) THEN sched
    ELSE LET task == ts[i]
             breakDuration ==
                 IF continuousWorkTime >= longBreakThreshold
                 THEN longBreakDuration ELSE shortBreakDuration
             breakEndTime == currentTime + breakDuration
             addBreak == /\ continuousWorkTime >= maxContinuousWork
                         /\ breakEndTime <= workDay.end
             sched1 == IF addBreak
                       THEN Append(sched, BreakBlock(currentTime, breakEndTime))
                       ELSE sched
             time1 == IF addBreak THEN breakEndTime ELSE currentTime
             work1 == IF addBreak THEN 0 ELSE continuousWorkTime
             slot == findAvailableSlot(sched1, time1, task.duration, workDay.end)
             sched2 == Append(sched1, TaskBlock(task, slot.start, slot.end))
         IN IF ~slot.found THEN sched1
            ELSE IF slot.end >= workDay.end THEN sched2
            ELSE placeTasks(sched2, ts, i + 1, slot.end,
                            work1 + task.duration, workDay)

\* variant: the placement starts from the clock whatever the time of day
scheduleTasks_fromClock(sched, ts, workDay, clock) ==
    placeTasks(sched, ts, 1, roundUpToMinutes(clock, roundingMinutes), 0, workDay)

scheduleTasks(sched, ts, workDay, clock) ==
    LET startFrom == IF clock >= workDay.start /\ clock < workDay.end
                     THEN roundUpToMinutes(clock, roundingMinutes)
                     ELSE workDay.start
    IN placeTasks(sched, ts, 1, startFrom, 0, workDay)

----------------------------------------------------------------------------
(* ScheduleEngine: break pass after an interactive edit *)

RECURSIVE addBreaksBetween(_, _, _)
addBreaksBetween(sched, taskBlocks, i) ==
    IF i >= Len(taskBlocks) THEN sched
    ELSE LET currentTask == taskBlocks[i]
             nextTask == taskBlocks[i + 1]
             gapDuration == nextTask.startTime - currentTask.endTime
             workDuration == currentTask.task.duration
             breakDuration ==
                 IF workDuration >= longBreakThreshold
                 THEN Min(longBreakDuration, gapDuration)
                 ELSE Min(shortBreakDuration, gapDuration)
             addBreak == /\ gapDuration >= shortBreakDuration
                         /\ workDuration >= minWorkForBreak
         IN addBreaksBetween(
                IF addBreak
                THEN Append(sched, BreakBlock(currentTask.endTime,
                                   currentTask.endTime + breakDuration))
                ELSE sched,
                taskBlocks, i + 1)

\* variant: the breaks already in the schedule are kept
regenerateBreaks_keepsBreaks(sched) ==
    LET taskBlocks == SortByStart(SelectSeq(sched, LAMBDA b : b.type = "task"))
    IN addBreaksBetween(sched, taskBlocks, 1)

regenerateBreaks(sched) ==
    LET kept == SelectSeq(sched, LAMBDA b : b.type # "break")
        taskBlocks == SortByStart(SelectSeq(kept, LAMBDA b : b.type = "task"))
    IN addBreaksBetween(kept, taskBlocks, 1)

----------------------------------------------------------------------------
(* ScheduleEngine: the operations as functions of the engine state *)

\* variant: the held schedule is not cleared before it is rebuilt
generateHeld_keepsHeld(held, date, ts, rules, adHoc, suppressed, clock) ==
    LET workDay == createWorkDay(date)
        dateKey == getDateKey(date)
        withUnavailable == addUnavailableBlocks(held, rules, adHoc,
                                                suppressed, workDay, dateKey)
    IN scheduleTasks(withUnavailable, prioritizeTasks(ts, clock), workDay, clock)

\* generateSchedule: the schedule held after the call, built from scratch
generateHeld(held, date, ts, rules, adHoc, suppressed, clock) ==
    LET cleared == <<>>
        workDay == createWorkDay(date)
        dateKey == getDateKey(date)
        withUnavailable == addUnavailableBlocks(cleared, rules, adHoc,
                                                suppressed, workDay, dateKey)
    IN scheduleTasks(withUnavailable, prioritizeTasks(ts, clock), workDay, clock)

\* variant: the moved block keeps the end time of the block it replaces
rescheduleHeld_keepsEnd(sched, taskId, newStartTime) ==
    IF ~\E i \in 1..Len(sched) : sched[i].taskId = taskId THEN sched
    ELSE LET first == CHOOSE i \in 1..Len(sched) :
                 /\ sched[i].taskId = taskId
                 /\ \A j \in 1..(i - 1) : sched[j].taskId # taskId
             task == sched[first].task
             newEndTime == newStartTime + task.duration
         IN IF isSlotAvailable(sched, newStartTime, newEndTime, taskId)
            THEN regenerateBreaks(
                     Append(SelectSeq(sched, LAMBDA b : b.taskId # taskId),
                            TaskBlock(task, newStartTime, sched[first].endTime)))
            ELSE sched

\* variant: a task without a block empties the schedule
rescheduleHeld_missingClears(sched, taskId, newStartTime) ==
    IF ~\E i \in 1..Len(sched) : sched[i].taskId = taskId THEN <<>>
    ELSE LET first == CHOOSE i \in 1..Len(sched) :
                 /\ sched[i].taskId = taskId
                 /\ \A j \in 1..(i - 1) : sched[j].taskId # taskId
             task == sched[first].task
             newEndTime == newStartTime + task.duration
         IN IF isSlotAvailable(sched, newStartTime, newEndTime, taskId)
            THEN regenerateBreaks(
                     Append(SelectSeq(sched, LAMBDA b : b.taskId # taskId),
                            TaskBlock(task, newStartTime, newEndTime)))
            ELSE sched

\* variant: the block the task had before the move is kept
rescheduleHeld_keepsOld(sched, taskId, newStartTime) ==
    IF ~\E i \in 1..Len(sched) : sched[i].taskId = taskId THEN sched
    ELSE LET first == CHOOSE i \in 1..Len(sched) :
                 /\ sched[i].taskId = taskId
                 /\ \A j \in 1..(i - 1) : sched[j].taskId # taskId
             task == sched[first].task
             newEndTime == newStartTime + task.duration
         IN IF isSlotAvailable(sched, newStartTime, newEndTime, taskId)
            THEN regenerateBreaks(
                     Append(sched, TaskBlock(task, newStartTime, newEndTime)))
            ELSE sched

\* variant: the blocks of the other tasks are removed with the moved one
rescheduleHeld_dropsTasks(sched, taskId, newStartTime) ==
    IF ~\E i \in 1..Len(sched) : sched[i].taskId = taskId THEN sched
    ELSE LET first == CHOOSE i \in 1..Len(sched) :
                 /\ sched[i].taskId = taskId
                 /\ \A j \in 1..(i - 1) : sched[j].taskId # taskId
             task == sched[first].task
             newEndTime == newStartTime + task.duration
         IN IF isSlotAvailable(sched, newStartTime, newEndTime, taskId)
            THEN regenerateBreaks(
                     Append(SelectSeq(sched, LAMBDA b : b.type # "task"),
                            TaskBlock(task, newStartTime, newEndTime)))
            ELSE sched

\* rescheduleTask: the schedule held after the call
rescheduleHeld(sched, taskId, newStartTime) ==
    IF ~\E i \in 1..Len(sched) : sched[i].taskId = taskId THEN sched
    ELSE LET first == CHOOSE i \in 1..Len(sched) :
                 /\ sched[i].taskId = taskId
                 /\ \A j \in 1..(i - 1) : sched[j].taskId # taskId
             task == sched[first].task
             newEndTime == newStartTime + task.duration
         IN IF isSlotAvailable(sched, newStartTime, newEndTime, taskId)
            THEN regenerateBreaks(
                     Append(SelectSeq(sched, LAMBDA b : b.taskId # taskId),
                            TaskBlock(task, newStartTime, newEndTime)))
            ELSE sched

----------------------------------------------------------------------------
(* Maps (Map.get with a default, Map.set, Map.delete) *)

EmptyMap == [k \in {} |-> <<>>]
MapGet(m, k, default) == IF k \in DOMAIN m THEN m[k] ELSE default
MapSet(m, k, v) == [x \in DOMAIN m \cup {k} |-> IF x = k THEN v ELSE m[x]]
MapDelete(m, k) == [x \in DOMAIN m \ {k} |-> m[x]]

AdHocOf(adHoc) == [k \in 0..20 |-> MapGet(adHoc, k, <<>>)]
SuppressedOf(suppressed) == [k \in 0..20 |-> MapGet(suppressed, k, {})]

\* generateSchedule on the engine's stores
generate(held, date) ==
    generateHeld(held, date, tasks, unavailableBlocks,
                 AdHocOf(adHocUnavailableByDate),
                 SuppressedOf(suppressedRecurringInstances), now)

----------------------------------------------------------------------------
(* Inputs offered to the engine *)

Today == {1}                      \* local day 1 is a Monday
Days == {1, 2, 8}                 \* a Monday, the Tuesday and the Monday after
GenerateTimes == {720}            \* local minute of day of generate's date
Utc == {0}
Offsets == {-480, 0}              \* UTC-8 and UTC
EditDays == {1}

Task(id, duration, deadline, priority, type) ==
    [id |-> id, duration |-> duration, deadline |-> deadline,
     priority |-> priority, type |-> type, completed |-> FALSE]

TaskPool ==
    { Task("a", 60, At(1, 1080), "high", "work"),
      Task("b", 30, At(4, 600), "low", "leisure"),
      Task("c", 90, At(2, 600), "medium", "study"),
      Task("d", 0, At(4, 600), "low", "work"),
      Task("f", 510, At(1, 1080), "medium", "work") }

TaskIds == {t.id : t \in TaskPool}

Rule(id, start, end, recurring, days) ==
    [id |-> id, startTime |-> At(0, start), endTime |-> At(0, end),
     recurring |-> recurring, days |-> days]

RulePool ==
    { Rule(<<"n1">>, 600, 660, "none", {}),
      Rule(<<"w2">>, 990, 1050, "weekly", {1, 2}),
      Rule(<<"u", "v">>, 720, 780, "daily", {}) }

RECURSIVE SeqsOver(_, _)
SeqsOver(S, n) ==
    IF n = 0 THEN {<<>>}
    ELSE LET shorter == SeqsOver(S, n - 1)
         IN shorter \cup {Append(q, x) : q \in shorter, x \in S}

\* collections without repetition, in the order of creation of their members
TaskOrder(t) == CHOOSE i \in 1..5 : <<"f", "d", "b", "c", "a">>[i] = t.id
RuleOrder(r) == CHOOSE i \in 1..3 :
                    <<<<"n1">>, <<"w2">>, <<"u", "v">>>>[i] = r.id
FewTaskLists == {q \in SeqsOver({t \in TaskPool : t.id = "a"}, 1) : TRUE}
TaskLists == {q \in SeqsOver(TaskPool, MaxTasks) :
                 \A i, j \in 1..Len(q) : i < j => TaskOrder(q[i]) < TaskOrder(q[j])}
RuleLists == {q \in SeqsOver(RulePool, MaxRules) :
                 \A i, j \in 1..Len(q) : i < j => RuleOrder(q[i]) < RuleOrder(q[j])}

\* (start, end) of the ad-hoc blocks a caller adds, local minutes of the day
AdHocTimes == {<<600, 660>>, <<960, 990>>, <<720, 660>>}
SameStartTimes == {<<600, 660>>, <<600, 630>>}

\* tasks for the ranking: deadlines on both sides of every step of the
\* deadline score, as minutes after 8:00 of day 1, and one that is overdue
RankDeadlines == {-60, 1440, 1441, 2880, 2881, 10080, 10081}
RankPool ==
    {Task("r", 30, At(1, 480) + d, p, t) :
        d \in RankDeadlines, p \in {"high", "medium", "low"},
        t \in {"work", "leisure"}}
RankLists == SeqsOver(RankPool, MaxRanked)

\* collections in which some tasks are already completed
MixedTaskPool ==
    {t \in TaskPool : t.id \in {"a", "b"}}
    \cup {Task("h", 20, At(4, 600), "medium", "study"),
          Task("m", 60, At(2, 600), "medium", "work"),
          Task("l", 400, At(9, 600), "low", "leisure")}
    \cup {[Task("e", 60, At(1, 1080), "high", "work") EXCEPT !.completed = TRUE],
          [Task("g", 30, At(4, 600), "low", "leisure") EXCEPT !.completed = TRUE]}
MixedOrder(t) ==
    CHOOSE i \in 1..7 : <<"e", "g", "l", "b", "h", "m", "a">>[i] = t.id
MixedTaskLists == {q \in SeqsOver(MixedTaskPool, MaxMixed) :
                      \A i, j \in 1..Len(q) :
                          i < j => MixedOrder(q[i]) < MixedOrder(q[j])}
RescheduleTimes == {540, 600, 690}

\* new start times before the working hours, so late that the task ends after
\* them, inside them, and on the day after
\* identities that a caller holds from an earlier schedule, or mistypes
MissingTaskIds == {"z"}
MissingBlockIds ==
    {BlockId("task", <<"a">>, At(1, 555)), BlockId("ad-hoc", <<>>, At(1, 615)),
     BlockId("unavailable", <<"w2">>, At(1, 540)), BlockId("break", <<>>, At(1, 600))}

WideRescheduleTimes == {At(1, 480), At(1, 600), At(1, 990), At(2, 600)}

\* blocks already placed when a slot is looked for: one inside another, two
\* that overlap, one up to the end of the day
PlacedPool ==
    {AdHocBlock(At(1, se[1]), At(1, se[2])) :
        se \in {<<600, 720>>, <<630, 660>>, <<690, 750>>, <<960, 1020>>}}
PlacedLists == {q \in SeqsOver(PlacedPool, MaxPlaced) :
                   \A i, j \in 1..Len(q) : i < j => q[i] # q[j]}

\* task blocks held when the breaks are regenerated: a long task, the urgent
\* 60-minute task and the 30-minute task, at starts that leave gaps of 15, 20
\* and 30 minutes and longer ones
HeldTaskPool ==
    {t \in TaskPool : t.id \in {"a", "b"}}
    \cup {Task("k", 180, At(2, 600), "high", "work")}
HeldStarts == {540, 615, 740, 750, 900}
HeldBlockPool ==
    {TaskBlock(t, At(1, m), At(1, m) + t.duration) :
        t \in HeldTaskPool, m \in HeldStarts}
HeldLists ==
    {q \in SeqsOver(HeldBlockPool, MaxHeld) :
        \A i, j \in 1..Len(q) :
            i < j => /\ q[i].taskId # q[j].taskId
                     /\ ~timeSlotsOverlap(q[i].startTime, q[i].endTime,
                                          q[j].startTime, q[j].endTime)}
Anchors == {At(1, 540), At(1, 645), At(1, 930)}
Durations == {30, 90, 240}
ClockValues == {At(1, 480), At(1, 607)}
LateClockValues == ClockValues \cup {At(1, 1085)}

----------------------------------------------------------------------------
(* State machine *)

NoBlockId == BlockId("none", <<>>, 0)
Call(name, taskId, time, end, blockId, outcome) ==
    [name |-> name, taskId |-> taskId, time |-> time, end |-> end,
     blockId |-> blockId, outcome |-> outcome]

NoGen == [date |-> 0, tasks |-> <<>>, rules |-> <<>>, adHoc |-> EmptyMap,
          suppressed |-> EmptyMap, now |-> 0, result |-> <<>>, valid |-> FALSE,
          again |-> FALSE]

InitIn(offsets) ==
    /\ tz \in offsets
    /\ now = At(1, 480)
    /\ tasks = <<>>
    /\ unavailableBlocks = <<>>
    /\ schedule = <<>>
    /\ adHocUnavailableByDate = EmptyMap
    /\ suppressedRecurringInstances = EmptyMap
    /\ result = <<>>
    /\ op = Call("init", NoTaskId, 0, 0, NoBlockId, "done")
    /\ lastGen = NoGen
    /\ deleted = {}
    /\ nEdits = 0
    /\ supplied = <<>>

Init == InitIn(Utc)
CalendarInit == InitIn(Offsets)

\* the clock advances between calls
tick(t) ==
    /\ t > now
    /\ now' = t
    /\ op' = Call("tick", NoTaskId, 0, 0, NoBlockId, "done")
    /\ UNCHANGED <<supplied, tz, tasks, unavailableBlocks, schedule,
                   adHocUnavailableByDate,
                   suppressedRecurringInstances, result, lastGen, deleted,
                   nEdits>>

Tick == \E t \in ClockValues : tick(t)

CalendarTick == \E t \in LateClockValues : tick(t)

\* a schedule has been asked for, or an edit made
Started == lastGen.valid \/ nEdits > 0

\* variant: the completed tasks are kept
setTasks_keepsCompleted(ts) ==
    /\ tasks' = ts
    /\ supplied' = ts
    /\ op' = Call("setTasks", NoTaskId, 0, 0, NoBlockId, "done")
    /\ UNCHANGED <<tz, now, unavailableBlocks, schedule, adHocUnavailableByDate,
                   suppressedRecurringInstances, result, lastGen, deleted,
                   nEdits>>

\* the caller supplies its collections before it asks for a schedule
setTasks(ts) ==
    /\ tasks' = SelectSeq(ts, LAMBDA t : ~t.completed)
    /\ supplied' = ts
    /\ op' = Call("setTasks", NoTaskId, 0, 0, NoBlockId, "done")
    /\ UNCHANGED <<tz, now, unavailableBlocks, schedule, adHocUnavailableByDate,
                   suppressedRecurringInstances, result, lastGen, deleted,
                   nEdits>>

SetTasks ==
    /\ ~Started
    /\ \E ts \in TaskLists : setTasks(ts)

CalendarSetTasks ==
    /\ ~Started
    /\ \E ts \in FewTaskLists : setTasks(ts)

SetUnavailableBlocks ==
    /\ ~Started
    /\ \E blocks \in RuleLists : unavailableBlocks' = blocks
    /\ op' = Call("setUnavailableBlocks", NoTaskId, 0, 0, NoBlockId, "done")
    /\ UNCHANGED <<supplied, tz, now, tasks, schedule, adHocUnavailableByDate,
                   suppressedRecurringInstances, result, lastGen, deleted,
                   nEdits>>

\* the record of a generateSchedule call: its inputs and what it returned;
\* again: the call before it had the same inputs and the held schedule had
\* been edited since
GenRecord(date, adHoc, suppressed, returned) ==
    [date |-> date, tasks |-> tasks, rules |-> unavailableBlocks,
     adHoc |-> adHoc, suppressed |-> suppressed, now |-> now,
     result |-> returned, valid |-> TRUE,
     again |-> /\ lastGen.valid
               /\ lastGen.date = date /\ lastGen.tasks = tasks
               /\ lastGen.rules = unavailableBlocks /\ lastGen.adHoc = adHoc
               /\ lastGen.suppressed = suppressed /\ lastGen.now = now
               /\ SortByStart(schedule) # lastGen.result]

generateSchedule(date) ==
    /\ LET held == generate(schedule, date)
       IN /\ schedule' = held
          /\ result' = SortByStart(held)
          /\ op' = Call("generateSchedule", NoTaskId, date, 0, NoBlockId, "done")
          /\ lastGen' = GenRecord(date, adHocUnavailableByDate,
                                  suppressedRecurringInstances, SortByStart(held))
    /\ UNCHANGED <<supplied, tz, now, tasks, unavailableBlocks, adHocUnavailableByDate,
                   suppressedRecurringInstances, deleted, nEdits>>

DatesOn(days) == {At(d, m) : d \in days, m \in GenerateTimes}

GenerateSchedule == \E date \in DatesOn(Today) : generateSchedule(date)

CalendarGenerateSchedule == \E date \in DatesOn(Days) : generateSchedule(date)

rescheduleTask(taskId, newStartTime) ==
    /\ nEdits' = nEdits + 1
    /\ LET held == rescheduleHeld(schedule, taskId, newStartTime)
           found == \E i \in 1..Len(schedule) : schedule[i].taskId = taskId
           outcome == IF ~found THEN "notFound"
                      ELSE IF held # schedule THEN "moved"
                      ELSE "kept"
       IN /\ schedule' = held
          /\ result' = held
          /\ op' = Call("rescheduleTask", taskId, newStartTime, 0, NoBlockId,
                        outcome)
    /\ UNCHANGED <<supplied, tz, now, tasks, unavailableBlocks,
                   adHocUnavailableByDate, suppressedRecurringInstances,
                   lastGen, deleted>>

RescheduleTask ==
    /\ nEdits < MaxEdits
    /\ \E taskId \in {t.id : t \in Range(tasks)}, d \in EditDays,
          m \in RescheduleTimes :
           rescheduleTask(taskId, At(d, m))

\* the ad-hoc blocks stored under the date key of an instant
StoredAt(startTime) ==
    MapGet(adHocUnavailableByDate, getDateKey(startTime), <<>>)

addUnavailableTime(startTime, endTime) ==
    /\ nEdits' = nEdits + 1
    /\ LET dateKey == getDateKey(startTime)
           stored == MapGet(adHocUnavailableByDate, dateKey, <<>>)
           adHoc == MapSet(adHocUnavailableByDate, dateKey,
                           Append(stored, AdHocBlock(startTime, endTime)))
           held == generateHeld(schedule, startTime, tasks, unavailableBlocks,
                       AdHocOf(adHoc),
                       SuppressedOf(suppressedRecurringInstances), now)
       IN /\ adHocUnavailableByDate' = adHoc
          /\ schedule' = held
          /\ result' = SortByStart(held)
          /\ op' = Call("addUnavailableTime", NoTaskId, startTime, endTime,
                        NoBlockId, "done")
          /\ lastGen' = GenRecord(startTime, adHoc,
                                  suppressedRecurringInstances, SortByStart(held))
    /\ UNCHANGED <<supplied, tz, now, tasks, unavailableBlocks,
                   suppressedRecurringInstances, deleted>>

AddUnavailableTime ==
    /\ nEdits < MaxEdits
    /\ \E d \in EditDays, se \in AdHocTimes :
           /\ Len(StoredAt(At(d, se[1]))) < MaxAdHoc
           /\ addUnavailableTime(At(d, se[1]), At(d, se[2]))

\* blockId.split('-')[1]: the part after the first '-' and before the second
splitSecond(blockId) == blockId.segs[1]

deleteTimeBlock(blockId) ==
    /\ nEdits' = nEdits + 1
    /\ LET first == CHOOSE j \in 1..Len(schedule) :
               /\ schedule[j].id = blockId
               /\ \A k \in 1..(j - 1) : schedule[k].id # blockId
           block == schedule[first]
           dateKey == getDateKey(block.startTime)
       IN IF ~\E i \in 1..Len(schedule) : schedule[i].id = blockId
          THEN /\ result' = schedule
               /\ op' = Call("deleteTimeBlock", NoTaskId, 0, 0, blockId,
                             "notFound")
               /\ UNCHANGED <<schedule, adHocUnavailableByDate,
                              suppressedRecurringInstances, lastGen, deleted>>
          ELSE IF blockId.kind = "ad-hoc"
          THEN LET stored == MapGet(adHocUnavailableByDate, dateKey, <<>>)
                   filteredBlocks == SelectSeq(stored, LAMBDA b : b.id # blockId)
                   adHoc == IF filteredBlocks = <<>>
                            THEN MapDelete(adHocUnavailableByDate, dateKey)
                            ELSE MapSet(adHocUnavailableByDate, dateKey,
                                        filteredBlocks)
                   held == generateHeld(schedule, block.startTime, tasks,
                               unavailableBlocks, AdHocOf(adHoc),
                               SuppressedOf(suppressedRecurringInstances), now)
               IN /\ adHocUnavailableByDate' = adHoc
                  /\ schedule' = held
                  /\ result' = SortByStart(held)
                  /\ lastGen' = GenRecord(block.startTime, adHoc,
                                    suppressedRecurringInstances,
                                    SortByStart(held))
                  /\ op' = Call("deleteTimeBlock", NoTaskId, block.startTime, 0,
                                blockId, "adHoc")
                  /\ UNCHANGED <<suppressedRecurringInstances, deleted>>
          ELSE IF blockId.kind = "unavailable"
          THEN LET recurringBlockId == splitSecond(blockId)
                   suppressed == MapSet(suppressedRecurringInstances, dateKey,
                       MapGet(suppressedRecurringInstances, dateKey, {})
                           \cup {<<recurringBlockId>>})
                   held == generateHeld(schedule, block.startTime, tasks,
                               unavailableBlocks,
                               AdHocOf(adHocUnavailableByDate),
                               SuppressedOf(suppressed), now)
               IN /\ suppressedRecurringInstances' = suppressed
                  /\ schedule' = held
                  /\ result' = SortByStart(held)
                  /\ lastGen' = GenRecord(block.startTime,
                                    adHocUnavailableByDate, suppressed,
                                    SortByStart(held))
                  /\ op' = Call("deleteTimeBlock", NoTaskId, block.startTime, 0,
                                blockId, "recurring")
                  /\ deleted' = deleted \cup
                         {[rule |-> blockId.segs, day |-> LocalDay(block.startTime)]}
                  /\ UNCHANGED adHocUnavailableByDate
          ELSE LET filtered == SelectSeq(schedule, LAMBDA b : b.id # blockId)
                   held == IF blockId.kind = "task"
                           THEN regenerateBreaks(filtered) ELSE filtered
               IN /\ schedule' = held
                  /\ result' = held
                  /\ op' = Call("deleteTimeBlock", NoTaskId, block.startTime, 0,
                                blockId, "plain")
                  /\ UNCHANGED <<adHocUnavailableByDate,
                                 suppressedRecurringInstances, lastGen,
                                 deleted>>
    /\ UNCHANGED <<supplied, tz, now, tasks, unavailableBlocks>>

DeleteTimeBlock ==
    /\ nEdits < MaxEdits
    /\ \E blockId \in {schedule[i].id : i \in 1..Len(schedule)} :
           deleteTimeBlock(blockId)

Next ==
    \/ Tick
    \/ SetTasks
    \/ SetUnavailableBlocks
    \/ GenerateSchedule
    \/ RescheduleTask
    \/ AddUnavailableTime
    \/ DeleteTimeBlock

Spec == Init /\ [][Next]_vars

\* the same engine in two time zones and over three days, with at most one task
CalendarNext ==
    \/ CalendarTick
    \/ CalendarSetTasks
    \/ SetUnavailableBlocks
    \/ CalendarGenerateSchedule
    \/ RescheduleTask
    \/ AddUnavailableTime
    \/ DeleteTimeBlock

CalendarSpec == CalendarInit /\ [][CalendarNext]_vars

\* the ranking on its own: the pending tasks and the clock are drawn, then
\* the tasks are ranked
RankInit ==
    /\ tz = 0
    /\ now \in ClockValues
    /\ tasks \in RankLists
    /\ unavailableBlocks = <<>>
    /\ schedule = <<>>
    /\ adHocUnavailableByDate = EmptyMap
    /\ suppressedRecurringInstances = EmptyMap
    /\ result = <<>>
    /\ op = Call("init", NoTaskId, 0, 0, NoBlockId, "done")
    /\ lastGen = NoGen
    /\ deleted = {}
    /\ nEdits = 0
    /\ supplied = tasks

PrioritizeTasks ==
    /\ op.name = "init"
    /\ result' = prioritizeTasks(tasks, now)
    /\ op' = Call("prioritizeTasks", NoTaskId, 0, 0, NoBlockId, "done")
    /\ UNCHANGED <<supplied, tz, now, tasks, unavailableBlocks, schedule,
                   adHocUnavailableByDate, suppressedRecurringInstances,
                   lastGen, deleted, nEdits>>

RankNext == PrioritizeTasks

RankSpec == RankInit /\ [][RankNext]_vars

\* moves to any time of the day and to the day after, around at most one task
WideRescheduleTask ==
    /\ nEdits < MaxEdits
    /\ \E taskId \in {t.id : t \in Range(tasks)},
          newStartTime \in WideRescheduleTimes :
           rescheduleTask(taskId, newStartTime)

WideNext ==
    \/ Tick
    \/ CalendarSetTasks
    \/ SetUnavailableBlocks
    \/ GenerateSchedule
    \/ WideRescheduleTask

WideSpec == Init /\ [][WideNext]_vars

\* the slot allocation on its own: the blocks already placed are drawn, then
\* a slot is looked for from an anchor time
SlotInit ==
    /\ tz = 0
    /\ now = At(1, 480)
    /\ tasks = <<>>
    /\ unavailableBlocks = <<>>
    /\ schedule \in PlacedLists
    /\ adHocUnavailableByDate = EmptyMap
    /\ suppressedRecurringInstances = EmptyMap
    /\ result = NoSlot
    /\ op = Call("init", NoTaskId, 0, 0, NoBlockId, "done")
    /\ lastGen = NoGen
    /\ deleted = {}
    /\ nEdits = 0
    /\ supplied = <<>>

FindAvailableSlot ==
    /\ \E startTime \in Anchors, duration \in Durations :
           /\ result' = findAvailableSlot(schedule, startTime, duration,
                                          createWorkDay(startTime).end)
           /\ op' = Call("findAvailableSlot", NoTaskId, startTime, duration,
                         NoBlockId, "done")
    /\ UNCHANGED <<supplied, tz, now, tasks, unavailableBlocks, schedule,
                   adHocUnavailableByDate, suppressedRecurringInstances,
                   lastGen, deleted, nEdits>>

SlotNext == FindAvailableSlot

SlotSpec == SlotInit /\ [][SlotNext]_vars

\* the break pass on its own: the task blocks held are drawn, as an edit
\* leaves them, then the breaks are regenerated
BreakInit ==
    /\ tz = 0
    /\ now = At(1, 480)
    /\ schedule \in HeldLists
    /\ tasks = [i \in 1..Len(schedule) |-> schedule[i].task]
    /\ supplied = tasks
    /\ unavailableBlocks = <<>>
    /\ adHocUnavailableByDate = EmptyMap
    /\ suppressedRecurringInstances = EmptyMap
    /\ result = <<>>
    /\ op = Call("init", NoTaskId, 0, 0, NoBlockId, "done")
    /\ lastGen = NoGen
    /\ deleted = {}
    /\ nEdits = 0

RegenerateBreaks ==
    /\ schedule' = regenerateBreaks(schedule)
    /\ result' = schedule'
    /\ op' = Call("regenerateBreaks", NoTaskId, 0, 0, NoBlockId, "done")
    /\ UNCHANGED <<supplied, tz, now, tasks, unavailableBlocks,
                   adHocUnavailableByDate, suppressedRecurringInstances,
                   lastGen, deleted, nEdits>>

BreakNext == RegenerateBreaks

BreakSpec == BreakInit /\ [][BreakNext]_vars

\* collections with completed tasks, handed over before the schedule is asked for
MixedSetTasks ==
    /\ ~Started
    /\ \E ts \in MixedTaskLists : setTasks(ts)

MixedNext ==
    \/ Tick
    \/ MixedSetTasks
    \/ SetUnavailableBlocks
    \/ GenerateSchedule

MixedSpec == Init /\ [][MixedNext]_vars

\* longer runs of additions and deletions of ad-hoc blocks, two of them with
\* the same start, around at most one task and one rule
BlockAddUnavailableTime ==
    /\ nEdits < MaxBlockEdits
    /\ \E d \in EditDays, se \in SameStartTimes :
           addUnavailableTime(At(d, se[1]), At(d, se[2]))

BlockDeleteTimeBlock ==
    /\ nEdits < MaxBlockEdits
    /\ \E blockId \in {schedule[i].id : i \in 1..Len(schedule)} :
           deleteTimeBlock(blockId)

BlockNext ==
    \/ CalendarSetTasks
    \/ SetUnavailableBlocks
    \/ GenerateSchedule
    \/ BlockAddUnavailableTime
    \/ BlockDeleteTimeBlock

BlockSpec == Init /\ [][BlockNext]_vars

\* edits with identities that may have no block in the schedule, between
\* additions of ad-hoc blocks
MissingRescheduleTask ==
    /\ nEdits < MaxBlockEdits
    /\ \E taskId \in MissingTaskIds \cup {t.id : t \in Range(tasks)},
          m \in RescheduleTimes :
           rescheduleTask(taskId, At(1, m))

MissingDeleteTimeBlock ==
    /\ nEdits < MaxBlockEdits
    /\ \E blockId \in MissingBlockIds : deleteTimeBlock(blockId)

MissingNext ==
    \/ CalendarSetTasks
    \/ SetUnavailableBlocks
    \/ GenerateSchedule
    \/ BlockAddUnavailableTime
    \/ MissingRescheduleTask
    \/ MissingDeleteTimeBlock

MissingSpec == Init /\ [][MissingNext]_vars

----------------------------------------------------------------------------
(* Vocabulary of the properties *)

\* open-interval overlap of two blocks
Overlap(a, b) == a.startTime < b.endTime /\ b.startTime < a.endTime

NoOverlap(sched) ==
    \A i, j \in 1..Len(sched) : i < j => ~Overlap(sched[i], sched[j])

TaskHeld(sched, taskId) == \E i \in 1..Len(sched) : sched[i].taskId = taskId

HeldDuration(sched, taskId) ==
    (CHOOSE b \in Range(sched) : b.taskId = taskId).task.duration

\* the target interval of a move overlaps a block that is not the task's own
TargetConflicts(sched, taskId, newStart) ==
    \E i \in 1..Len(sched) :
        /\ sched[i].taskId # taskId
        /\ newStart < sched[i].endTime
        /\ sched[i].startTime < newStart + HeldDuration(sched, taskId)

HasRuleBlock(sched, ruleId) ==
    \E i \in 1..Len(sched) :
        sched[i].id.kind = "unavailable" /\ sched[i].id.segs = ruleId

IsRecurringRule(ruleId) ==
    \E i \in 1..Len(unavailableBlocks) :
        /\ unavailableBlocks[i].id = ruleId
        /\ unavailableBlocks[i].recurring # "none"

TaskBlocksOf(sched, taskId) ==
    {i \in 1..Len(sched) : sched[i].type = "task" /\ sched[i].taskId = taskId}

----------------------------------------------------------------------------
(* C1: after generateSchedule and after any sequence of rescheduleTask,    *)
(* addUnavailableTime and deleteTimeBlock calls no two distinct blocks of  *)
(* the schedule overlap (open intervals).                                  *)
C1_NoOverlapInvariant == NoOverlap(schedule)

(* C2: a rescheduleTask whose target interval overlaps a block other than  *)
(* the task's own is a no-op: the schedule held and the schedule returned  *)
(* equal the schedule before the call.                                     *)
C2_ConflictIsNoOp ==
    [][(/\ op'.name = "rescheduleTask"
        /\ TaskHeld(schedule, op'.taskId)
        /\ TargetConflicts(schedule, op'.taskId, op'.time))
       => (schedule' = schedule /\ result' = schedule)]_vars

C2_Witness ==
    /\ op.name = "rescheduleTask"
    /\ op.outcome = "kept"
    /\ TaskHeld(schedule, op.taskId)
    /\ TargetConflicts(schedule, op.taskId, op.time)

(* C3: rescheduleTask never produces a new overlap: if no two blocks       *)
(* overlapped before the call, none overlap after it, regenerated breaks   *)
(* included.                                                               *)
C3_RescheduleKeepsNoOverlap ==
    [][(op'.name = "rescheduleTask" /\ NoOverlap(schedule))
       => NoOverlap(schedule')]_vars

(* C4: every task block of a schedule produced by generateSchedule or by a *)
(* successful rescheduleTask lasts at least the task's duration and less   *)
(* than the duration plus one slot width.                                  *)
C4_DurationFidelity ==
    \A i \in 1..Len(schedule) :
        schedule[i].type = "task" =>
            LET length == schedule[i].endTime - schedule[i].startTime
            IN /\ length >= schedule[i].task.duration
               /\ length < schedule[i].task.duration + slotWidth

C4_Witness ==
    /\ op.name = "rescheduleTask"
    /\ op.outcome = "moved"
    /\ \E i \in 1..Len(schedule) :
           /\ schedule[i].taskId = op.taskId
           /\ schedule[i].startTime = op.time
           /\ schedule[i].task.duration > 0

(* C5: generateSchedule is deterministic and replaces the held schedule:   *)
(* a call with the tasks, rules, ad-hoc blocks, suppressions, date and     *)
(* clock of the call before it returns the same schedule, whatever         *)
(* schedule the engine held.                                               *)
C5_GenerateDeterministic ==
    [][(/\ op'.name = "generateSchedule"
        /\ lastGen.valid
        /\ lastGen.date = op'.time
        /\ lastGen.tasks = tasks
        /\ lastGen.rules = unavailableBlocks
        /\ lastGen.adHoc = adHocUnavailableByDate
        /\ lastGen.suppressed = suppressedRecurringInstances
        /\ lastGen.now = now)
       => result' = lastGen.result]_vars

C5_Witness ==
    /\ op.name = "generateSchedule"
    /\ lastGen.again
    /\ \E i \in 1..Len(result) : result[i].type = "task"

(* C6: after deleteTimeBlock on a block that a recurring rule produced for *)
(* date D, the returned schedule and every later generateSchedule for D    *)
(* contain no block of that rule, and the rule collection is unchanged,    *)
(* whatever the rule's identity.                                           *)
C6_DeletedInstanceStaysDeleted ==
    [][/\ (/\ op'.name = "deleteTimeBlock"
           /\ op'.outcome = "recurring"
           /\ IsRecurringRule(op'.blockId.segs))
          => /\ ~HasRuleBlock(result', op'.blockId.segs)
             /\ unavailableBlocks' = unavailableBlocks
       /\ op'.name = "generateSchedule"
          => \A e \in deleted' :
                 (IsRecurringRule(e.rule) /\ e.day = LocalDay(op'.time))
                 => ~HasRuleBlock(result', e.rule)]_vars

\* the rule applies on the local day of the date, by its recurrence
AppliesOn(rule, date) ==
    IF rule.recurring = "none" THEN LocalDay(rule.startTime) = LocalDay(date)
    ELSE IF rule.recurring = "daily" THEN TRUE
    ELSE (LocalDay(date) % 7) \in rule.days

\* the rule's time of day meets the working hours
MeetsWorkingHours(rule) ==
    /\ getHoursMinutes(rule.startTime) < workingHoursEnd * MinutesPerHour
    /\ workingHoursStart * MinutesPerHour < getHoursMinutes(rule.endTime)

(* C7: suppression is scoped to one date: after an instance of a weekly    *)
(* rule is deleted on date D, generateSchedule for D+7 and for every other *)
(* date on which the rule applies still contains the rule's block.         *)
C7_SuppressionScopedToDate ==
    (op.name = "generateSchedule") =>
        \A i \in 1..Len(unavailableBlocks) :
            LET rule == unavailableBlocks[i]
            IN (/\ rule.recurring = "weekly"
                /\ AppliesOn(rule, op.time)
                /\ MeetsWorkingHours(rule)
                /\ \E e \in deleted : e.rule = rule.id
                /\ \A e \in deleted :
                       e.rule = rule.id => e.day # LocalDay(op.time))
               => HasRuleBlock(result, rule.id)

(* C8: expansion for a target date includes a rule without recurrence only *)
(* if the rule's template date is the target date, a daily rule on every   *)
(* date, and a weekly rule exactly when the weekday is in its day set.     *)
C8_ExpansionByRecurrence ==
    (op.name = "generateSchedule") =>
        \A i \in 1..Len(unavailableBlocks) :
            LET rule == unavailableBlocks[i]
                included == shouldIncludeBlock(rule, createWorkDay(op.time).start)
            IN /\ rule.recurring = "none" =>
                      (included => LocalDay(rule.startTime) = LocalDay(op.time))
               /\ rule.recurring = "daily" => included
               /\ rule.recurring = "weekly" =>
                      (included <=> (LocalDay(op.time) % 7) \in rule.days)

\* generateSchedule returns the blocks only: nothing lists the tasks it left out
unplaceableReport == {}

(* C9: after generateSchedule every pending task either has exactly one    *)
(* task block in the schedule or is listed in the report of unplaceable    *)
(* tasks, never both and never neither.                                    *)
C9_PlacedOrReported ==
    (op.name = "generateSchedule") =>
        \A i \in 1..Len(tasks) :
            LET placed == Cardinality(TaskBlocksOf(schedule, tasks[i].id))
                reported == tasks[i].id \in unplaceableReport
            IN /\ placed <= 1
               /\ (placed = 1) # reported

(* C10: every block of the schedule starts strictly before it ends, after  *)
(* any sequence of operations; a task of non-positive duration and a rule  *)
(* or ad-hoc block whose end is not after its start yield no block.        *)
C10_BlocksHavePositiveLength ==
    \A i \in 1..Len(schedule) : schedule[i].startTime < schedule[i].endTime

(* C11: when the target interval of a rescheduleTask overlaps no block      *)
(* other than the task's own current block, the call succeeds: afterwards   *)
(* the schedule holds exactly one block of the task, from newStart to       *)
(* newStart + task.duration, and the call returns that schedule.            *)
C11_FreeTargetMoves ==
    [][(/\ op'.name = "rescheduleTask"
        /\ TaskHeld(schedule, op'.taskId)
        /\ ~TargetConflicts(schedule, op'.taskId, op'.time))
       => LET own == {i \in 1..Len(schedule') :
                         schedule'[i].taskId = op'.taskId}
          IN /\ Cardinality(own) = 1
             /\ \A i \in own :
                    /\ schedule'[i].type = "task"
                    /\ schedule'[i].startTime = op'.time
                    /\ schedule'[i].endTime =
                           op'.time + HeldDuration(schedule, op'.taskId)
             /\ result' = schedule']_vars

\* the move lands on the task's own block of the generated schedule
C11_Witness ==
    /\ op.name = "rescheduleTask"
    /\ op.outcome = "moved"
    /\ nEdits = 1
    /\ lastGen.valid
    /\ \E i \in 1..Len(lastGen.result), j \in 1..Len(schedule) :
           /\ lastGen.result[i].taskId = op.taskId
           /\ schedule[j].taskId = op.taskId
           /\ schedule[j].startTime = op.time
           /\ schedule[j].startTime # lastGen.result[i].startTime
           /\ Overlap(lastGen.result[i], schedule[j])

(* C12: addUnavailableTime adds an unavailable block and does not displace  *)
(* the tasks already placed: every task block of the schedule before the    *)
(* call is in the schedule after it with the same start and end.            *)
C12_AddKeepsTasks ==
    [][(op'.name = "addUnavailableTime")
       => \A i \in 1..Len(schedule) :
              schedule[i].type = "task" =>
                  \E j \in 1..Len(schedule') :
                      /\ schedule'[j].type = "task"
                      /\ schedule'[j].taskId = schedule[i].taskId
                      /\ schedule'[j].startTime = schedule[i].startTime
                      /\ schedule'[j].endTime = schedule[i].endTime]_vars

\* the break follows a task block of the schedule and ends by the next one
BreakBetweenTasks(sched, b) ==
    \E i, j \in 1..Len(sched) :
        /\ sched[i].type = "task" /\ sched[j].type = "task"
        /\ b.startTime = sched[i].endTime
        /\ b.endTime <= sched[j].startTime

AdHocCount(sched) ==
    Cardinality({i \in 1..Len(sched) : sched[i].id.kind = "ad-hoc"})

\* every ad-hoc block that is stored, under any date key
StoredAdHocIds ==
    UNION {{b.id : b \in Range(adHocUnavailableByDate[k])} :
              k \in DOMAIN adHocUnavailableByDate}

(* C14: deleting an ad-hoc unavailable block removes that block and no      *)
(* other: the store of its date and the returned schedule lose one ad-hoc   *)
(* block, the others are still present, and a later generateSchedule shows  *)
(* only ad-hoc blocks that are still stored.                                *)
C14_AdHocDeleteRemovesOne ==
    [][/\ (op'.name = "deleteTimeBlock" /\ op'.outcome = "adHoc")
          => /\ Len(MapGet(adHocUnavailableByDate', getDateKey(op'.time), <<>>))
                    = Len(StoredAt(op'.time)) - 1
             /\ AdHocCount(result') = AdHocCount(schedule) - 1
       /\ op'.name = "generateSchedule"
          => \A i \in 1..Len(result') :
                 result'[i].id.kind = "ad-hoc"
                 => result'[i].id \in StoredAdHocIds']_vars

\* ordered by non-decreasing start time
OrderedByStart(sched) ==
    \A i, j \in 1..Len(sched) : i < j => sched[i].startTime <= sched[j].startTime

(* C15: the schedule returned by every operation (generateSchedule,         *)
(* rescheduleTask, addUnavailableTime, deleteTimeBlock) is ordered by       *)
(* non-decreasing start time.                                               *)
C15_ReturnedInStartOrder == OrderedByStart(result)

\* two tasks that differ at most in their deadline
SameButDeadline(a, b) ==
    /\ a.priority = b.priority /\ a.type = b.type /\ a.duration = b.duration

(* C16: ranking monotonicity: of two tasks that are identical except that   *)
(* the first has the strictly earlier deadline, the first has an urgency    *)
(* score at least that of the second, whatever the current time.            *)
C16_EarlierDeadlineScoresHigher ==
    \A i, j \in 1..Len(tasks) :
        (SameButDeadline(tasks[i], tasks[j])
         /\ tasks[i].deadline < tasks[j].deadline)
        => /\ getUrgencyScore(tasks[i], now) >= getUrgencyScore(tasks[j], now)
           /\ getBalancedScore(tasks[i], now) >= getBalancedScore(tasks[j], now)

\* ranked: an overdue task and one like it with a later deadline, whose
\* scores differ
C16_Witness ==
    /\ op.name = "prioritizeTasks"
    /\ \E i, j \in 1..Len(tasks) :
           /\ SameButDeadline(tasks[i], tasks[j])
           /\ tasks[i].deadline < now
           /\ tasks[i].deadline < tasks[j].deadline
           /\ getUrgencyScore(tasks[i], now) > getUrgencyScore(tasks[j], now)

IndexPermutations(n) ==
    {p \in [1..n -> 1..n] : \A i, j \in 1..n : p[i] = p[j] => i = j}

\* two tasks that differ at most in their priority
SameButPriority(a, b) ==
    /\ a.deadline = b.deadline /\ a.type = b.type /\ a.duration = b.duration

PriorityRank(p) == IF p = "high" THEN 3 ELSE IF p = "medium" THEN 2 ELSE 1

(* C17: the ranking is a permutation of the pending tasks in descending     *)
(* order of urgency score, tasks of equal score in their input order; all   *)
(* else equal, high priority scores strictly above medium and medium        *)
(* strictly above low.                                                      *)
C17_RankIsStableDescending ==
    /\ (op.name = "prioritizeTasks") =>
           \E p \in IndexPermutations(Len(tasks)) :
               /\ Len(result) = Len(tasks)
               /\ \A i \in 1..Len(tasks) : result[i] = tasks[p[i]]
               /\ \A i, j \in 1..Len(tasks) :
                      i < j =>
                          \/ getUrgencyScore(result[i], now)
                                 > getUrgencyScore(result[j], now)
                          \/ /\ getUrgencyScore(result[i], now)
                                    = getUrgencyScore(result[j], now)
                             /\ p[i] < p[j]
    /\ \A i, j \in 1..Len(tasks) :
           (SameButPriority(tasks[i], tasks[j])
            /\ PriorityRank(tasks[i].priority) > PriorityRank(tasks[j].priority))
           => getUrgencyScore(tasks[i], now) > getUrgencyScore(tasks[j], now)

\* ranked: two different tasks of equal score
C17_Witness ==
    /\ op.name = "prioritizeTasks"
    /\ \E i, j \in 1..Len(tasks) :
           /\ i < j
           /\ tasks[i] # tasks[j]
           /\ getUrgencyScore(tasks[i], now) = getUrgencyScore(tasks[j], now)

\* every ad-hoc block that is stored, under any date key
StoredAdHoc ==
    UNION {Range(adHocUnavailableByDate[k]) : k \in DOMAIN adHocUnavailableByDate}

\* the last call built the schedule from the rules and the ad-hoc blocks
FromGenerate ==
    \/ op.name = "generateSchedule"
    \/ op.name = "addUnavailableTime"
    \/ op.name = "deleteTimeBlock" /\ op.outcome # "plain"

\* the scheduling window of the local day of a date
WindowStart(date) == At(LocalDay(date), workingHoursStart * MinutesPerHour)
WindowEnd(date) == At(LocalDay(date), workingHoursEnd * MinutesPerHour)

\* the interval of a rule on the local day of a date
RuleStartOn(rule, date) == At(LocalDay(date), getHoursMinutes(rule.startTime))
RuleEndOn(rule, date) == At(LocalDay(date), getHoursMinutes(rule.endTime))

(* C18: every unavailable block of a generated schedule lies inside the     *)
(* scheduling window: the block of a rule or of an ad-hoc interval that     *)
(* meets the window is the interval clamped to the window bounds, and an    *)
(* interval that does not meet the window has no block.                     *)
C18_UnavailableClampedToWindow ==
    FromGenerate =>
        LET date == lastGen.date
            ws == WindowStart(date)
            we == WindowEnd(date)
        IN /\ \A i \in 1..Len(result) :
                  result[i].type = "unavailable"
                  => ws <= result[i].startTime /\ result[i].endTime <= we
           /\ \A i \in 1..Len(result), k \in 1..Len(unavailableBlocks) :
                  (result[i].id.kind = "unavailable"
                   /\ result[i].id.segs = unavailableBlocks[k].id)
                  => LET rs == RuleStartOn(unavailableBlocks[k], date)
                         re == RuleEndOn(unavailableBlocks[k], date)
                     IN /\ rs < we /\ ws < re
                        /\ result[i].startTime = Max(rs, ws)
                        /\ result[i].endTime = Min(re, we)
           /\ \A i \in 1..Len(result) :
                  result[i].id.kind = "ad-hoc"
                  => \E a \in StoredAdHoc :
                         /\ a.id = result[i].id
                         /\ a.startTime < we /\ ws < a.endTime
                         /\ result[i].startTime = Max(a.startTime, ws)
                         /\ result[i].endTime = Min(a.endTime, we)

\* generated: the block of a rule cut at the end of the window, and a stored
\* ad-hoc block of another day that has no block
C18_Witness ==
    /\ op.name = "generateSchedule"
    /\ \E i \in 1..Len(result), k \in 1..Len(unavailableBlocks) :
           /\ result[i].id.kind = "unavailable"
           /\ result[i].id.segs = unavailableBlocks[k].id
           /\ RuleEndOn(unavailableBlocks[k], lastGen.date) > WindowEnd(lastGen.date)
           /\ result[i].endTime = WindowEnd(lastGen.date)
    /\ \E k \in 1..Len(StoredAt(lastGen.date)) :
           /\ StoredAt(lastGen.date)[k].endTime <= WindowStart(lastGen.date)
           /\ \A i \in 1..Len(result) : result[i].id.kind # "ad-hoc"

(* C19: when generateSchedule is called for the current day, no task block  *)
(* starts before the current time, whatever the current time of that day.   *)
C19_NoTaskInThePast ==
    (op.name = "generateSchedule" /\ LocalDay(lastGen.date) = LocalDay(now))
    => \A i \in 1..Len(result) :
           result[i].type = "task" => result[i].startTime >= now

\* the rule has a block on the local day of the date: it applies on that
\* day, meets the working hours, and its instance of that day was not deleted
RuleBlockDue(rule, date) ==
    /\ AppliesOn(rule, date)
    /\ MeetsWorkingHours(rule)
    /\ ~\E e \in deleted : e.rule = rule.id /\ e.day = LocalDay(date)

\* the stored ad-hoc block lies on the local day of the date and meets its
\* scheduling window
AdHocBlockDue(a, date) ==
    /\ LocalDay(a.startTime) = LocalDay(date)
    /\ a.startTime < WindowEnd(date)
    /\ WindowStart(date) < a.endTime

(* C20: generateSchedule on an empty collection of pending tasks yields a   *)
(* schedule with no task block and no break block, holding exactly the      *)
(* unavailable blocks of the day: those of the rules that apply on it and   *)
(* the ad-hoc blocks added for it.                                          *)
C20_EmptyTasksOnlyUnavailable ==
    (op.name = "generateSchedule" /\ tasks = <<>>)
    => /\ \A i \in 1..Len(result) : result[i].type = "unavailable"
       /\ \A k \in 1..Len(unavailableBlocks) :
              HasRuleBlock(result, unavailableBlocks[k].id)
              <=> RuleBlockDue(unavailableBlocks[k], lastGen.date)
       /\ {result[i].id : i \in {j \in 1..Len(result) :
                                    result[j].id.kind = "ad-hoc"}}
          = {a.id : a \in {b \in StoredAdHoc : AdHocBlockDue(b, lastGen.date)}}

(* C21: no task block of a schedule returned by generateSchedule refers to *)
(* a task whose completion flag was true in the collection last handed to  *)
(* setTasks; every task block refers to a task of that collection.         *)
C21_NoCompletedTaskPlaced ==
    op.name = "generateSchedule"
    => \A i \in 1..Len(result) :
           result[i].type = "task"
           => /\ ~result[i].task.completed
              /\ \E k \in 1..Len(supplied) :
                     /\ supplied[k] = result[i].task
                     /\ ~supplied[k].completed

\* a collection with a completed task ahead of a pending one was supplied and
\* the schedule generated from it places the pending one
C21_Witness ==
    /\ op.name = "generateSchedule"
    /\ Len(supplied) = 2
    /\ supplied[1].completed
    /\ ~supplied[2].completed
    /\ \E i \in 1..Len(result) : result[i].taskId = supplied[2].id

\* the instant lies outside the scheduling window of the date's local day
OutsideWindow(t, date) == t < WindowStart(date) \/ t >= WindowEnd(date)

(* C22: with no unavailable block, the current time outside the window and *)
(* two pending tasks whose durations sum to less than maxContinuousWork,   *)
(* or the 60-minute and the 30-minute task of the claim's example,         *)
(* generateSchedule returns two blocks: the higher-ranked task at the      *)
(* window start and the other task from the end of the first, with no gap  *)
(* and no break.                                                           *)
C22_TwoShortTasksBackToBack ==
    LET ranked == prioritizeTasks(tasks, now)
        start == WindowStart(lastGen.date)
        middle == start + ranked[1].duration
    IN (/\ op.name = "generateSchedule"
        /\ \A i \in 1..Len(result) : result[i].type # "unavailable"
        /\ OutsideWindow(now, lastGen.date)
        /\ Len(tasks) = 2
        /\ \/ tasks[1].duration + tasks[2].duration < maxContinuousWork
           \/ ranked[1].duration = 60 /\ ranked[2].duration = 30)
       => result = <<TaskBlock(ranked[1], start, middle),
                     TaskBlock(ranked[2], middle, middle + ranked[2].duration)>>

\* a 20-minute task is supplied ahead of the urgent 60-minute task, which is
\* placed 9:00-10:00, the other 10:00-10:20
C22_Witness ==
    /\ op.name = "generateSchedule"
    /\ OutsideWindow(now, lastGen.date)
    /\ Len(tasks) = 2 /\ tasks[1].id = "h" /\ tasks[2].id = "a"
    /\ Len(result) = 2
    /\ result[1].taskId = "a"
    /\ result[1].startTime = At(1, 540) /\ result[1].endTime = At(1, 600)
    /\ result[2].taskId = "h"
    /\ result[2].startTime = At(1, 600) /\ result[2].endTime = At(1, 620)

\* the claim's example: the 60-minute urgent task 9:00-10:00 and the
\* 30-minute task 10:00-10:30
C22_Example ==
    /\ op.name = "generateSchedule"
    /\ OutsideWindow(now, lastGen.date)
    /\ Len(result) = 2
    /\ result[1].taskId = "a"
    /\ result[1].startTime = At(1, 540) /\ result[1].endTime = At(1, 600)
    /\ result[2].taskId = "b"
    /\ result[2].startTime = At(1, 600) /\ result[2].endTime = At(1, 630)

\* the unavailable blocks and the blocks of the tasks other than taskId
OtherBlocks(sched, taskId) ==
    {b \in Range(sched) : b.type # "break" /\ b.taskId # taskId}

(* C23: a successful rescheduleTask leaves the other blocks untouched:     *)
(* the unavailable blocks and the blocks of the other tasks are the same,  *)
(* with the same identity, start and end, after the call as before it.     *)
C23_MoveKeepsOtherBlocks ==
    [][(/\ op'.name = "rescheduleTask"
        /\ TaskHeld(schedule, op'.taskId)
        /\ ~TargetConflicts(schedule, op'.taskId, op'.time))
       => /\ OtherBlocks(schedule', op'.taskId) = OtherBlocks(schedule, op'.taskId)
          /\ OtherBlocks(result', op'.taskId) = OtherBlocks(schedule, op'.taskId)
          /\ Len(SelectSeq(schedule', LAMBDA b : b.type # "break"))
             = Len(SelectSeq(schedule, LAMBDA b : b.type # "break"))]_vars

\* a task was moved in a schedule that holds an unavailable block and the
\* block of another task
C23_Witness ==
    /\ op.name = "rescheduleTask"
    /\ op.outcome = "moved"
    /\ \E b \in OtherBlocks(schedule, op.taskId) : b.type = "unavailable"
    /\ \E b \in OtherBlocks(schedule, op.taskId) : b.type = "task"

\* the start of the task's block in the schedule
StartOf(sched, taskId) ==
    (CHOOSE b \in Range(sched) : b.taskId = taskId).startTime

(* C24: generateSchedule places the tasks in ranked order: of two tasks    *)
(* that both have a block in the returned schedule, the block of the       *)
(* higher-ranked one starts before the block of the lower-ranked one.      *)
C24_PlacedInRankedOrder ==
    op.name = "generateSchedule"
    => LET ranked == prioritizeTasks(tasks, now)
       IN \A i, j \in 1..Len(ranked) :
              (/\ i < j
               /\ TaskHeld(result, ranked[i].id)
               /\ TaskHeld(result, ranked[j].id))
              => StartOf(result, ranked[i].id) < StartOf(result, ranked[j].id)

\* the interval of the given length from start lies between the anchor and
\* the end of the day and overlaps no block of the schedule
FreeFrom(sched, start, length, anchor, endOfDay) ==
    /\ start >= anchor
    /\ start + length <= endOfDay
    /\ \A b \in Range(sched) :
           ~timeSlotsOverlap(start, start + length, b.startTime, b.endTime)

(* C25: findAvailableSlot returns the earliest interval of the required    *)
(* length that starts at or after the anchor time, ends at or before the   *)
(* end of the window and overlaps no block already placed, and returns     *)
(* none only when there is no such interval, whatever the placed blocks,   *)
(* nested and overlapping ones included.                                   *)
C25_EarliestFreeInterval ==
    op.name = "findAvailableSlot"
    => LET anchor == op.time
           length == op.end
           endOfDay == createWorkDay(anchor).end
           free == {s \in anchor..endOfDay :
                       FreeFrom(schedule, s, length, anchor, endOfDay)}
       IN IF result.found
          THEN /\ result.start \in free
               /\ result.end = result.start + length
               /\ \A s \in free : result.start <= s
          ELSE free = {}

\* where the placement of generateSchedule stands at its end: the end of the
\* last task or break block, or the start of the placement when there is none
CursorAfter(sched, date, clock) ==
    LET placed == {b \in Range(sched) : b.type # "unavailable"}
        startFrom == IF OutsideWindow(clock, date) THEN WindowStart(date)
                     ELSE roundUpToMinutes(clock, roundingMinutes)
    IN IF placed = {} THEN startFrom
       ELSE CHOOSE e \in {b.endTime : b \in placed} :
                \A b \in placed : b.endTime <= e

(* C26: generateSchedule omits a pending task only when there is no slot   *)
(* for it: a pending task has no block in the returned schedule only if no *)
(* interval of its length, after the cursor and before the end of the      *)
(* window, is free of blocks; a task that cannot be placed does not keep a *)
(* later-ranked task out.                                                  *)
C26_OmittedOnlyWithoutSlot ==
    op.name = "generateSchedule"
    => \A k \in 1..Len(tasks) :
           ~TaskHeld(result, tasks[k].id)
           => LET cursor == CursorAfter(result, lastGen.date, now)
                  endOfDay == WindowEnd(lastGen.date)
              IN \A s \in cursor..endOfDay :
                     ~FreeFrom(result, s, tasks[k].duration, cursor, endOfDay)

\* the task blocks of a schedule in start order
TasksInOrder(sched) == SortByStart(SelectSeq(sched, LAMBDA b : b.type = "task"))

\* the long natural gap that counts as rest
longGapThreshold == 60

\* the breaks that the break rule puts between the task blocks from the i-th
\* pair on, as (start, end) pairs, with the continuous work accumulated
\* before the i-th task
RECURSIVE BreaksByRule(_, _, _)
BreaksByRule(taskBlocks, i, accumulated) ==
    IF i >= Len(taskBlocks) THEN {}
    ELSE LET A == taskBlocks[i]
             B == taskBlocks[i + 1]
             work == accumulated + (A.endTime - A.startTime)
             gap == B.startTime - A.endTime
             length == IF work >= longBreakThreshold
                       THEN longBreakDuration ELSE shortBreakDuration
             inserted == /\ work >= maxContinuousWork
                         /\ gap >= shortBreakDuration
                         /\ A.endTime + length <= B.startTime
             carried == IF inserted \/ gap > longGapThreshold THEN 0 ELSE work
         IN (IF inserted THEN {<<A.endTime, A.endTime + length>>} ELSE {})
            \cup BreaksByRule(taskBlocks, i + 1, carried)

BreaksOf(sched) ==
    {<<b.startTime, b.endTime>> : b \in {x \in Range(sched) : x.type = "break"}}

(* C27: after generateSchedule, rescheduleTask and deleteTimeBlock the     *)
(* break blocks of the schedule are those of the break rule: between two   *)
(* task blocks A and B adjacent in start order there is a break from A.end *)
(* exactly when the continuous work has reached maxContinuousWork, the gap *)
(* is at least shortBreakDuration and the break fits in the gap; it lasts  *)
(* longBreakDuration if the continuous work has reached longBreakThreshold *)
(* and shortBreakDuration otherwise.                                       *)
C27_BreaksFollowRule ==
    op.name \in {"generateSchedule", "rescheduleTask", "deleteTimeBlock"}
    => BreaksOf(schedule) = BreaksByRule(TasksInOrder(schedule), 1, 0)

(* C28: a break is inserted at full length or not at all: every break      *)
(* block of the schedule lasts exactly shortBreakDuration or exactly       *)
(* longBreakDuration, and it ends at or before the start of the next task  *)
(* block, never cut down to the gap.                                       *)
C28_BreaksAtFullLength ==
    \A b \in Range(schedule) :
        b.type = "break"
        => /\ b.endTime - b.startTime \in {shortBreakDuration, longBreakDuration}
           /\ \A t \in Range(schedule) :
                  (t.type = "task" /\ t.startTime >= b.startTime)
                  => b.endTime <= t.startTime

\* a break block of the schedule starts at the end of the block
BreakFollows(sched, block) ==
    \E b \in Range(sched) : b.type = "break" /\ b.startTime = block.endTime

\* the continuous work accumulated when the i-th task block ends: the
\* accumulator starts again from zero after a break and after a gap longer
\* than the long-gap threshold, and nowhere else
RECURSIVE Accumulated(_, _, _)
Accumulated(sched, taskBlocks, i) ==
    LET own == taskBlocks[i].endTime - taskBlocks[i].startTime
    IN IF i = 1 THEN own
       ELSE IF \/ BreakFollows(sched, taskBlocks[i - 1])
               \/ taskBlocks[i].startTime - taskBlocks[i - 1].endTime
                      > longGapThreshold
            THEN own
            ELSE Accumulated(sched, taskBlocks, i - 1) + own

(* C29: the continuous-work accumulator is set back to zero when a break   *)
(* is inserted and when the gap between two consecutive tasks exceeds 60   *)
(* minutes, and at no other point: in a generated schedule a break follows *)
(* a task exactly when the work accumulated since the last break or long   *)
(* gap has reached maxContinuousWork and the break fits the gap to the     *)
(* next task.                                                              *)
C29_AccumulatorResets ==
    op.name = "generateSchedule"
    => LET taskBlocks == TasksInOrder(result)
       IN \A i \in 1..(Len(taskBlocks) - 1) :
              LET work == Accumulated(result, taskBlocks, i)
                  gap == taskBlocks[i + 1].startTime - taskBlocks[i].endTime
                  length == IF work >= longBreakThreshold
                            THEN longBreakDuration ELSE shortBreakDuration
              IN BreakFollows(result, taskBlocks[i])
                 <=> (work >= maxContinuousWork /\ gap >= length)

(* C30: no break block of the schedule, whether generateSchedule inserted  *)
(* it or it was regenerated after rescheduleTask or deleteTimeBlock,       *)
(* overlaps an unavailable block or a task block.                          *)
C30_BreaksInFreeGaps ==
    \A b \in Range(schedule) :
        b.type = "break"
        => \A x \in Range(schedule) : x.type # "break" => ~Overlap(b, x)

(* C31: rescheduling a task to the start time it already has leaves a      *)
(* freshly generated schedule unchanged, break blocks included: the break  *)
(* pass after an edit yields the breaks that generateSchedule inserted.    *)
C31_MoveInPlaceKeepsSchedule ==
    [][(/\ op.name = "generateSchedule"
        /\ op'.name = "rescheduleTask"
        /\ \E b \in Range(schedule) :
               b.taskId = op'.taskId /\ b.startTime = op'.time)
       => /\ Range(schedule') = Range(schedule)
          /\ Len(schedule') = Len(schedule)]_vars

(* C32: after any sequence of generateSchedule, rescheduleTask,            *)
(* addUnavailableTime and deleteTimeBlock calls the schedule holds at most *)
(* one task block per task identity (the supplied collection holds each    *)
(* identity once).                                                         *)
C32_OneBlockPerTask ==
    \A i, j \in 1..Len(schedule) :
        (/\ schedule[i].type = "task"
         /\ schedule[j].type = "task"
         /\ schedule[i].taskId = schedule[j].taskId)
        => i = j

\* a task was moved to another start in a schedule of two task blocks
C32_Witness ==
    /\ op.name = "rescheduleTask"
    /\ op.outcome = "moved"
    /\ lastGen.valid
    /\ \E b \in Range(lastGen.result) :
           b.taskId = op.taskId /\ b.startTime # op.time
    /\ Cardinality({b \in Range(schedule) : b.type = "task"}) = 2

(* C33: block identities are unique within the schedule after any sequence *)
(* of operations, so that deleteTimeBlock(id) removes exactly one block;   *)
(* two ad-hoc blocks added with the same start and different ends are      *)
(* distinct blocks.                                                        *)
C33_BlockIdsUnique ==
    \A i, j \in 1..Len(schedule) : schedule[i].id = schedule[j].id => i = j

(* C34: after any sequence of operations every task block and every break  *)
(* block lies within the scheduling window of the schedule's date: it      *)
(* starts at or after the window start and ends at or before the window    *)
(* end; rescheduleTask moves no task outside the window or to another day. *)
C34_BlocksInsideWindow ==
    lastGen.valid
    => \A b \in Range(schedule) :
           b.type \in {"task", "break"}
           => /\ WindowStart(lastGen.date) <= b.startTime
              /\ b.endTime <= WindowEnd(lastGen.date)

(* C35: every break block of the schedule starts exactly where a task      *)
(* block ends and is followed by a task block that starts at or after the  *)
(* end of the break; generateSchedule leaves no break behind the last task *)
(* it places.                                                              *)
C35_BreaksBetweenTasks ==
    \A b \in Range(schedule) :
        b.type = "break"
        => /\ \E t \in Range(schedule) :
                  t.type = "task" /\ t.endTime = b.startTime
           /\ \E t \in Range(schedule) :
                  t.type = "task" /\ t.startTime >= b.endTime

\* the call changes the unavailability: an ad-hoc block is added, or an
\* unavailable block deleted
UnavailabilityChange(call) ==
    \/ call.name = "addUnavailableTime"
    \/ call.name = "deleteTimeBlock" /\ call.outcome \in {"adHoc", "recurring"}

(* C36: interactive edits survive a change of the unavailability: when     *)
(* deleteTimeBlock has removed the block of a task, or rescheduleTask has  *)
(* moved it, an addUnavailableTime or a deletion of an unavailable block   *)
(* that follows does not bring the block back and does not move the task   *)
(* back.                                                                   *)
C36_EditsSurviveUnavailability ==
    [][UnavailabilityChange(op')
       => /\ (/\ op.name = "deleteTimeBlock"
              /\ op.outcome = "plain"
              /\ op.blockId.kind = "task")
             => ~TaskHeld(schedule', op.blockId.segs[1])
          /\ (op.name = "rescheduleTask" /\ op.outcome = "moved")
             => \E b \in Range(schedule') :
                    b.taskId = op.taskId /\ b.startTime = op.time]_vars

(* C37: the per-date stores follow one calendar day, the local one: in the *)
(* schedule that generateSchedule returns for a date, the stored ad-hoc    *)
(* blocks that show are those that start on the local day of that date,   *)
(* and the recurring instances left out are those deleted on that local    *)
(* day, whatever the offset between local time and UTC.                    *)
C37_StoresFollowLocalDay ==
    op.name = "generateSchedule"
    => /\ \A a \in StoredAdHoc :
              (a.startTime < WindowEnd(a.startTime)
               /\ WindowStart(a.startTime) < a.endTime)
              => ((\E b \in Range(result) : b.id = a.id)
                  <=> LocalDay(a.startTime) = LocalDay(lastGen.date))
       /\ \A k \in 1..Len(unavailableBlocks) :
              LET rule == unavailableBlocks[k]
              IN (IsRecurringRule(rule.id)
                  /\ AppliesOn(rule, lastGen.date)
                  /\ MeetsWorkingHours(rule))
                 => (HasRuleBlock(result, rule.id)
                     <=> ~\E e \in deleted :
                            /\ e.rule = rule.id
                            /\ e.day = LocalDay(lastGen.date))

BlockIdsOf(sched) == {b.id : b \in Range(sched)}

(* C38: rescheduleTask with a task identity that has no block in the       *)
(* schedule, and deleteTimeBlock with a block identity that is not in the  *)
(* schedule, leave the schedule, the suppressions and the ad-hoc store     *)
(* unchanged and return the current schedule.                              *)
C38_MissingIdentityIsNoOp ==
    [][(\/ op'.name = "rescheduleTask" /\ ~TaskHeld(schedule, op'.taskId)
        \/ op'.name = "deleteTimeBlock" /\ op'.blockId \notin BlockIdsOf(schedule))
       => /\ schedule' = schedule
          /\ result' = schedule
          /\ adHocUnavailableByDate' = adHocUnavailableByDate
          /\ suppressedRecurringInstances' = suppressedRecurringInstances]_vars

\* a block identity that is not in the schedule was deleted while the
\* schedule held blocks and an ad-hoc block was stored
C38_Witness ==
    /\ op.name = "deleteTimeBlock"
    /\ op.outcome = "notFound"
    /\ op.blockId \notin BlockIdsOf(schedule)
    /\ schedule # <<>>
    /\ StoredAdHoc # {}

\* a task identity without a block was rescheduled while the schedule held
\* blocks
C38_MissingTask ==
    /\ op.name = "rescheduleTask"
    /\ op.outcome = "notFound"
    /\ schedule # <<>>

====
